---------------------------- MODULE Spec2Model ----------------------------
(***************************************************************************)
(* A model of ts_src/psbt/bip371.ts: the BIP371 (Taproot) fields of a PSBT. *)
(*                                                                         *)
(* JavaScript values are modelled as records:                              *)
(*   - an object is a record holding exactly the fields that are set, so   *)
(*     an absent (undefined) field is a field missing from DOMAIN;         *)
(*   - the value undefined itself is the record  undefined ;               *)
(*   - a Tapleaf is [output, version] with version optional, a branch of a *)
(*     Taptree (a two element array) is [left, right];                      *)
(*   - the outcome of a call is Return(value) or Throw(error).             *)
(***************************************************************************)
EXTENDS Integers, Sequences, FiniteSets, TLC

VARIABLES
  pc,        \* position of the run: which call has been made
  tree,      \* codec: the Taptree handed to tapTreeToList
  leaves,    \* codec: the TapLeaf list handed to tapTreeFromList
  listRes,   \* codec: what tapTreeToList returned or threw
  treeRes,   \* codec: what tapTreeFromList returned or threw
  input,     \* the PSBT input a call is made on (None before there is one)
  output,    \* the PSBT output a call is made on
  args,      \* the other arguments of the last call
  checkRes,  \* what checkTaprootInputFields / checkTaprootOutputFields did
  leafRes,   \* what findTapLeafToFinalize did
  finalRes,  \* what tapScriptFinalizer did
  inputAfter, \* the input object as tapScriptFinalizer left it
  inserted,  \* insertion loop: how many leaves of the list are in the tree
  treeBefore \* insertion loop: the partial tree before the last insertion

codecVars == <<tree, leaves, listRes, treeRes>>

psbtVars == <<input, output, args, checkRes, leafRes, finalRes, inputAfter>>

loopVars == <<inserted, treeBefore>>

vars == <<pc, codecVars, psbtVars, loopVars>>

(***************************************************************************)
(* Program constants and the bounds of the model                           *)
(***************************************************************************)
\* MAX_TAPTREE_DEPTH is 128 in payments/bip341.ts.  The codec only compares a
\* depth with it, so the model takes a cap that the enumerated trees and lists
\* reach and exceed, and treats it as one of its bounds.
MAX_TAPTREE_DEPTH == 8

LEAF_VERSION_TAPSCRIPT == 192

\* largest number of leaves of the enumerated trees
MaxLeaves == 4

\* longest enumerated TapLeaf list
MaxListLen == 3

\* largest small depth of an enumerated TapLeaf (the depths around the cap are added)
MaxDepth == 2

\* longest array field (tapLeafScript, tapScriptSig, ...) of an input or output
MaxEntries == 2

\* largest number of fields one update of an input sets
MaxUpdateFields == 2

\* longest tapScriptSig of an input to finalize
MaxSigs == 3

(***************************************************************************)
(* Values                                                                  *)
(***************************************************************************)
undefined == [undef |-> TRUE]

None == [none |-> TRUE]

\* The outcome of a call: the value returned or the Error thrown
Throw(msg) == [threw |-> TRUE, error |-> msg]

Return(v) == [threw |-> FALSE, value |-> v]

Threw(r) == "error" \in DOMAIN r

Returned(r) == "value" \in DOMAIN r

ErrMaxDepth == "Max taptree depth exceeded."

ErrNoRoom == "No room left to insert tapleaf in tree"

ErrNotATree == "Cannot convert taptree to tapleaf list. Expecting a tapree structure."

Pair(l, r) == [left |-> l, right |-> r]

IsPair(t) == "left" \in DOMAIN t

(***************************************************************************)
(* The shape predicates bip371.ts imports from types.ts.  Leaf versions of *)
(* the model are even, as every Taproot leaf version is.                   *)
(***************************************************************************)
isTapleaf(o) == "output" \in DOMAIN o

RECURSIVE isTaptree(_)
isTaptree(scriptTree) ==
  IF IsPair(scriptTree)
    THEN isTaptree(scriptTree.left) /\ isTaptree(scriptTree.right)
    ELSE isTapleaf(scriptTree)

(***************************************************************************)
(* Tree codec.  The arms of a CASE are tried in the order written, as the  *)
(* statements of the code are; a definition of a LET is evaluated when an  *)
(* arm first needs it.                                                     *)
(***************************************************************************)
\* tree.version || LEAF_VERSION_TAPSCRIPT : an absent version and 0 are falsy
VersionOrDefault(leaf) ==
  IF "version" \in DOMAIN leaf /\ leaf.version # 0
    THEN leaf.version
    ELSE LEAF_VERSION_TAPSCRIPT

\* The accumulator  acc  is the array  leaves  the recursion pushes onto; the
\* outcome is that array after the call, or the Error thrown.
RECURSIVE _tapTreeToList(_, _, _)
_tapTreeToList(t, acc, depth) ==
  CASE depth > MAX_TAPTREE_DEPTH -> Throw(ErrMaxDepth)
    [] t = undefined -> Return(acc)
    [] isTapleaf(t) ->
         Return(Append(acc, [depth |-> depth,
                             leafVersion |-> VersionOrDefault(t),
                             script |-> t.output]))
    [] OTHER ->
         LET l == IF t.left # undefined
                    THEN _tapTreeToList(t.left, acc, depth + 1)
                    ELSE Return(acc)
         IN CASE l.threw -> l
              [] t.right # undefined -> _tapTreeToList(t.right, l.value, depth + 1)
              [] OTHER -> l

tapTreeToList(t) ==
  IF ~isTaptree(t) THEN Throw(ErrNotATree) ELSE _tapTreeToList(t, <<>>, 0)

\* The Tapleaf a TapLeaf of the list becomes
NewTapleafWithoutVersion(leaf) == [output |-> leaf.script]

NewTapleaf(leaf) == [output |-> leaf.script, version |-> leaf.leafVersion]

\* tree && tree[0], tree && tree[1]
Child0(t) == IF t = undefined THEN undefined ELSE t.left

Child1(t) == IF t = undefined THEN undefined ELSE t.right

\* instertLeafInTree trying the right side before the left one
RECURSIVE instertLeafInTreeRightFirst(_, _, _)
instertLeafInTreeRightFirst(leaf, t, depth) ==
  CASE depth > MAX_TAPTREE_DEPTH -> Throw(ErrMaxDepth)
    [] leaf.depth = depth -> Return(IF t = undefined THEN NewTapleaf(leaf) ELSE undefined)
    [] isTapleaf(t) -> Return(undefined)
    [] OTHER ->
         LET leftSide == instertLeafInTreeRightFirst(leaf, Child0(t), depth + 1)
             rightSide == instertLeafInTreeRightFirst(leaf, Child1(t), depth + 1)
         IN CASE rightSide.threw -> rightSide
              [] rightSide.value # undefined -> Return(Pair(Child0(t), rightSide.value))
              [] leftSide.threw -> leftSide
              [] leftSide.value # undefined -> Return(Pair(leftSide.value, Child1(t)))
              [] OTHER -> Return(undefined)

\* The outcome is a PartialTaptree, undefined (no room) or the Error thrown.
RECURSIVE instertLeafInTree(_, _, _)
instertLeafInTree(leaf, t, depth) ==
  CASE depth > MAX_TAPTREE_DEPTH -> Throw(ErrMaxDepth)
    [] leaf.depth = depth ->
         Return(IF t = undefined THEN NewTapleaf(leaf) ELSE undefined)
    [] isTapleaf(t) -> Return(undefined)
    [] OTHER ->
         LET leftSide == instertLeafInTree(leaf, Child0(t), depth + 1)
             rightSide == instertLeafInTree(leaf, Child1(t), depth + 1)
         IN CASE leftSide.threw -> leftSide
              [] leftSide.value # undefined ->
                   Return(Pair(leftSide.value, Child1(t)))
              [] rightSide.threw -> rightSide
              [] rightSide.value # undefined ->
                   Return(Pair(Child0(t), rightSide.value))
              [] OTHER -> Return(undefined)

\* The loop of instertLeavesInTree from its i-th iteration on, t the tree so far.
RECURSIVE InsertLoop(_, _, _)
InsertLoop(ls, i, t) ==
  IF i > Len(ls) THEN Return(t)
  ELSE
    LET next == instertLeafInTree(ls[i], t, 0)
    IN CASE next.threw -> next
         [] next.value = undefined -> Throw(ErrNoRoom)
         [] OTHER -> InsertLoop(ls, i + 1, next.value)

instertLeavesInTree(ls) == InsertLoop(ls, 1, undefined)

tapTreeFromListAnySingleLeaf(ls) ==
  IF Len(ls) = 1
    THEN Return(NewTapleaf(ls[1]))
    ELSE instertLeavesInTree(ls)

tapTreeFromList(ls) ==
  IF Len(ls) = 1 /\ ls[1].depth = 0
    THEN Return(NewTapleaf(ls[1]))
    ELSE instertLeavesInTree(ls)

(***************************************************************************)
(* The inputs of the codec                                                 *)
(***************************************************************************)
\* Tapleaves: without a version, with the default one, with another, with 0
TreeLeaves ==
  { [output |-> "s1"],
    [output |-> "s1", version |-> LEAF_VERSION_TAPSCRIPT],
    [output |-> "s2", version |-> LEAF_VERSION_TAPSCRIPT + 2],
    [output |-> "s2", version |-> 0] }

\* Every tree of n leaves in which each node is a leaf or a pair of two trees
RECURSIVE TreesOfSize(_)
TreesOfSize(n) ==
  IF n = 1 THEN TreeLeaves
  ELSE UNION { { Pair(l, r) : l \in TreesOfSize(k), r \in TreesOfSize(n - k) }
               : k \in 1..(n - 1) }

\* A left comb and a right comb whose deepest leaves are at depth d
RECURSIVE LeftComb(_)
LeftComb(d) ==
  IF d = 0 THEN [output |-> "s1", version |-> LEAF_VERSION_TAPSCRIPT]
  ELSE Pair(LeftComb(d - 1), [output |-> "s2", version |-> LEAF_VERSION_TAPSCRIPT])

RECURSIVE RightComb(_)
RightComb(d) ==
  IF d = 0 THEN [output |-> "s2", version |-> LEAF_VERSION_TAPSCRIPT]
  ELSE Pair([output |-> "s1", version |-> LEAF_VERSION_TAPSCRIPT], RightComb(d - 1))

RECURSIVE Nested(_, _)
Nested(t, d) == IF d = 0 THEN t ELSE Pair(Nested(t, d - 1), Nested(t, d - 1))

\* combs whose deepest leaves are just above, at and just below the depth cap
CombDepths == {MAX_TAPTREE_DEPTH - 1, MAX_TAPTREE_DEPTH, MAX_TAPTREE_DEPTH + 1}

InputTrees ==
  UNION { TreesOfSize(n) : n \in 1..MaxLeaves }
    \cup { LeftComb(d) : d \in CombDepths }
    \cup { RightComb(d) : d \in CombDepths }
    \cup { Nested(l, 3) : l \in TreeLeaves }

ListDepths == (0..MaxDepth) \cup {MAX_TAPTREE_DEPTH, MAX_TAPTREE_DEPTH + 1}

ListLeaves ==
  { [depth |-> d, leafVersion |-> k[1], script |-> k[2]] :
      d \in ListDepths,
      k \in { <<LEAF_VERSION_TAPSCRIPT, "s1">>, <<0, "s2">> } }

InputLists == UNION { [1..n -> ListLeaves] : n \in 0..MaxListLen }

(***************************************************************************)
(* The codec as a state machine: a caller holds a tree or a list, converts *)
(* it, and converts the result back.                                       *)
(***************************************************************************)
CodecIdle == tree = None /\ leaves = None /\ listRes = None /\ treeRes = None

LoopIdle == inserted = None /\ treeBefore = None

PsbtIdle ==
  /\ input = None /\ output = None /\ args = None /\ checkRes = None
  /\ leafRes = None /\ finalRes = None /\ inputAfter = None

Init ==
  /\ PsbtIdle /\ LoopIdle
  /\ listRes = None
  /\ treeRes = None
  /\ \/ pc = "tree" /\ tree \in InputTrees /\ leaves = <<>>
     \/ pc = "list" /\ leaves \in InputLists /\ tree = undefined

\* tapTreeToList(tree)
EncodeTree ==
  /\ pc = "tree"
  /\ listRes' = tapTreeToList(tree)
  /\ pc' = "tree-listed"
  /\ UNCHANGED <<tree, leaves, treeRes, psbtVars, loopVars>>

\* tapTreeFromList(tapTreeToList(tree))
DecodeEncoded ==
  /\ pc = "tree-listed"
  /\ Returned(listRes)
  /\ treeRes' = tapTreeFromList(listRes.value)
  /\ pc' = "tree-done"
  /\ UNCHANGED <<tree, leaves, listRes, psbtVars, loopVars>>

\* tapTreeFromList(leaves)
DecodeList ==
  /\ pc = "list"
  /\ treeRes' = tapTreeFromList(leaves)
  /\ pc' = "list-treed"
  /\ UNCHANGED <<tree, leaves, listRes, psbtVars, loopVars>>

\* tapTreeToList(tapTreeFromList(leaves))
EncodeDecoded ==
  /\ pc = "list-treed"
  /\ Returned(treeRes)
  /\ listRes' = tapTreeToList(treeRes.value)
  /\ pc' = "list-done"
  /\ UNCHANGED <<tree, leaves, treeRes, psbtVars, loopVars>>

Next == EncodeTree \/ DecodeEncoded \/ DecodeList \/ EncodeDecoded

Spec == Init /\ [][Next]_vars

(***************************************************************************)
(* Notions the claims about the codec are stated with                      *)
(***************************************************************************)
RECURSIVE LeafCount(_)
LeafCount(t) ==
  IF IsPair(t) THEN LeafCount(t.left) + LeafCount(t.right)
  ELSE IF isTapleaf(t) THEN 1 ELSE 0

\* depth of the deepest leaf
RECURSIVE DeepestLeaf(_, _)
DeepestLeaf(t, depth) ==
  IF IsPair(t)
    THEN LET l == DeepestLeaf(t.left, depth + 1)
             r == DeepestLeaf(t.right, depth + 1)
         IN IF l > r THEN l ELSE r
    ELSE IF isTapleaf(t) THEN depth ELSE -1

\* every node is a leaf or a pair whose two children are both present
RECURSIVE NoEmptySlot(_)
NoEmptySlot(t) ==
  IF IsPair(t) THEN NoEmptySlot(t.left) /\ NoEmptySlot(t.right)
  ELSE t # undefined

\* the tree with every absent or zero leaf version replaced by the default one
RECURSIVE WithDefaultVersions(_)
WithDefaultVersions(t) ==
  IF IsPair(t)
    THEN [left |-> WithDefaultVersions(t.left), right |-> WithDefaultVersions(t.right)]
    ELSE [output |-> t.output,
          version |-> IF "version" \in DOMAIN t /\ t.version # 0
                        THEN t.version
                        ELSE LEAF_VERSION_TAPSCRIPT]

TreeSide == pc \in {"tree-listed", "tree-done"}

ListSide == pc \in {"list-treed", "list-done"}

HasDeepLeaf == \E i \in 1..Len(leaves) : leaves[i].depth > MAX_TAPTREE_DEPTH

(***************************************************************************)
(* C2, as claimed: for every tree of 1 to 8 leaves whose nodes are leaves  *)
(* or pairs of two trees, tapTreeFromList(tapTreeToList(tree)) succeeds    *)
(* and returns a tree equal to tree in structure, scripts and versions.    *)
(***************************************************************************)
C2_RoundTripExact ==
  (TreeSide /\ LeafCount(tree) <= 8) =>
     /\ Returned(listRes)
     /\ pc = "tree-done" => (Returned(treeRes) /\ treeRes.value = tree)

(***************************************************************************)
(* C2, amended: for every such tree the round trip succeeds and returns a  *)
(* tree of the same structure and the same scripts, in which every leaf    *)
(* has the version it had, except that a leaf without a version or with    *)
(* version 0 comes back with LEAF_VERSION_TAPSCRIPT.                       *)
(***************************************************************************)
C2_RoundTripDefaulted ==
  (TreeSide /\ LeafCount(tree) <= 8) =>
     /\ Returned(listRes)
     /\ Len(listRes.value) = LeafCount(tree)
     /\ pc = "tree-done" =>
          (Returned(treeRes) /\ treeRes.value = WithDefaultVersions(tree))

\* C2's case: a tree of 8 leaves went round, and a version was defaulted
C2_Witness ==
  /\ pc = "tree-done"
  /\ LeafCount(tree) = 8
  /\ Returned(treeRes)
  /\ treeRes.value # tree
  /\ treeRes.value = WithDefaultVersions(tree)

(***************************************************************************)
(* C3, as claimed: for every list tapTreeFromList accepts, tapTreeToList   *)
(* of the returned tree succeeds and returns exactly the original list.    *)
(***************************************************************************)
C3_RoundTripList ==
  (pc = "list-done" /\ Returned(treeRes) /\ treeRes.value # undefined) =>
     (Returned(listRes) /\ listRes.value = leaves)

(***************************************************************************)
(* C4, as claimed: whenever tapTreeFromList returns, the returned tree has *)
(* no empty slot; and a leaf that finds no free slot at its depth (two     *)
(* leaves of depth 0) makes it fail with the no-room error.                *)
(***************************************************************************)
C4_AcceptsOnlyCompleteTrees ==
  (ListSide /\ Len(leaves) > 0) =>
     /\ Returned(treeRes) => NoEmptySlot(treeRes.value)
     /\ (Len(leaves) >= 2 /\ \A i \in 1..Len(leaves) : leaves[i].depth = 0)
          => treeRes = Throw(ErrNoRoom)

(***************************************************************************)
(* C5, as claimed: tapTreeFromList of any list with a leaf deeper than the *)
(* cap fails with the max-depth error, whatever the other leaves and their *)
(* order; tapTreeToList of any tree with a leaf nested deeper than the cap *)
(* fails with the same error.                                              *)
(***************************************************************************)
C5_DepthCapWhateverTheRest ==
  /\ (ListSide /\ HasDeepLeaf) => treeRes = Throw(ErrMaxDepth)
  /\ (TreeSide /\ DeepestLeaf(tree, 0) > MAX_TAPTREE_DEPTH)
        => listRes = Throw(ErrMaxDepth)

(***************************************************************************)
(* C5, amended: tapTreeFromList of any list with a leaf deeper than the    *)
(* cap fails, with the max-depth error or with the no-room error, and with *)
(* the max-depth error when the list's first leaf is that deep;            *)
(* tapTreeToList of any tree (of leaves and pairs) with a leaf nested      *)
(* deeper than the cap fails with the max-depth error.                     *)
(***************************************************************************)
C5_DepthCapAmended ==
  /\ (ListSide /\ HasDeepLeaf) =>
        /\ Threw(treeRes)
        /\ treeRes.error \in {ErrMaxDepth, ErrNoRoom}
        /\ leaves[1].depth > MAX_TAPTREE_DEPTH => treeRes.error = ErrMaxDepth
  /\ (TreeSide /\ DeepestLeaf(tree, 0) > MAX_TAPTREE_DEPTH)
        => listRes = Throw(ErrMaxDepth)

\* C5's case: a list whose second leaf is deeper than the cap ran out of room
C5_Witness ==
  /\ pc = "list-treed"
  /\ Len(leaves) = 2
  /\ leaves[1].depth = 0
  /\ leaves[2].depth = MAX_TAPTREE_DEPTH + 1
  /\ treeRes = Throw(ErrNoRoom)

(***************************************************************************)
(* JavaScript objects with optional fields                                 *)
(***************************************************************************)
Has(o, f) == f \in DOMAIN o

\* o.f && o.f.length : the array field is set and is not empty
HasEntries(o, f) == Has(o, f) /\ Len(o[f]) > 0

\* o.f || [] 
EntriesOf(o, f) == IF Has(o, f) THEN o[f] ELSE <<>>

EmptyObject == <<>>

(***************************************************************************)
(* What bip371.ts imports from payments/bip341.ts and psbt/psbtutils.ts.   *)
(* A tagged hash is modelled by the record of what was hashed, so that two *)
(* hashes are equal exactly when their preimages are; a branch hash sorts  *)
(* its two children first, so it is the hash of their set.  A control      *)
(* block is 33 bytes followed by the 32 byte hashes of its Merkle path.    *)
(***************************************************************************)
\* the leaf's version, or the default one when it has none or 0
tapleafHash(leaf) == [tapleaf |-> <<VersionOrDefault(leaf), leaf.output>>]

tapBranchHash(a, b) == [tapbranch |-> {a, b}]

RECURSIVE rootHashFromPathFrom(_, _, _)
rootHashFromPathFrom(path, i, kj) ==
  IF i > Len(path) THEN kj
  ELSE rootHashFromPathFrom(path, i + 1, tapBranchHash(kj, path[i]))

rootHashFromPath(controlBlock, leafHash) ==
  rootHashFromPathFrom(controlBlock.path, 1, leafHash)

ControlBlockLength(controlBlock) == 33 + 32 * Len(controlBlock.path)

isP2TR(script) == script.type = "p2tr"

(***************************************************************************)
(* The shape predicates of an input or output                              *)
(***************************************************************************)
isTaprootInput(i) ==
  \/ Has(i, "tapInternalKey")
  \/ Has(i, "tapMerkleRoot")
  \/ HasEntries(i, "tapLeafScript")
  \/ HasEntries(i, "tapBip32Derivation")
  \/ (Has(i, "witnessUtxo") /\ isP2TR(i.witnessUtxo.script))

\* called without its second argument, the script
isTaprootOutput(o) ==
  \/ Has(o, "tapInternalKey")
  \/ Has(o, "tapTree")
  \/ HasEntries(o, "tapBip32Derivation")

hasNonTaprootFields(io) ==
  \/ Has(io, "redeemScript")
  \/ Has(io, "witnessScript")
  \/ HasEntries(io, "bip32Derivation")

(***************************************************************************)
(* The checks of an input.  same  tells whether inputData and newInputData *)
(* are one and the same object (inputData === newInputData).               *)
(***************************************************************************)
ErrMixedFields(action) ==
  <<"Invalid arguments for Psbt.", action, ". Cannot use both taproot and non-taproot fields.">>

ErrLeafNotInTree(action) ==
  <<"Invalid arguments for Psbt.", action, ". Tapleaf not part of taptree.">>

checkMixedTaprootAndNonTaprootInputFields(inputData, newInputData, same, action) ==
  LET isBadTaprootUpdate ==
        isTaprootInput(inputData) /\ hasNonTaprootFields(newInputData)
      isBadNonTaprootUpdate ==
        hasNonTaprootFields(inputData) /\ isTaprootInput(newInputData)
      hasMixedFields ==
        same /\ isTaprootInput(newInputData) /\ hasNonTaprootFields(newInputData)
  IN IF isBadTaprootUpdate \/ isBadNonTaprootUpdate \/ hasMixedFields
     THEN Throw(ErrMixedFields(action))
     ELSE Return(undefined)

\* merkleRoot is a root or  undefined
isTapLeafInTree(tapLeaf, merkleRoot) ==
  IF merkleRoot = undefined THEN TRUE
  ELSE LET leafHash == tapleafHash([output |-> tapLeaf.script,
                                    version |-> tapLeaf.leafVersion])
           rootHash == rootHashFromPath(tapLeaf.controlBlock, leafHash)
       IN rootHash = merkleRoot

\* ls.every(l => isTapLeafInTree(l, merkleRoot))
EveryLeafInTree(ls, merkleRoot) ==
  \A k \in 1..Len(ls) : isTapLeafInTree(ls[k], merkleRoot)

checkIfTapLeafInTreeNewLeavesOnly(inputData, newInputData, action) ==
  IF Has(newInputData, "tapMerkleRoot")
  THEN IF ~EveryLeafInTree(EntriesOf(newInputData, "tapLeafScript"), newInputData.tapMerkleRoot)
       THEN Throw(ErrLeafNotInTree(action))
       ELSE Return(undefined)
  ELSE IF Has(inputData, "tapMerkleRoot")
  THEN IF ~EveryLeafInTree(EntriesOf(newInputData, "tapLeafScript"), inputData.tapMerkleRoot)
       THEN Throw(ErrLeafNotInTree(action))
       ELSE Return(undefined)
  ELSE Return(undefined)

checkIfTapLeafInTree(inputData, newInputData, action) ==
  IF Has(newInputData, "tapMerkleRoot")
  THEN LET newLeafsInTree ==
             EveryLeafInTree(EntriesOf(newInputData, "tapLeafScript"), newInputData.tapMerkleRoot)
           oldLeafsInTree ==
             EveryLeafInTree(EntriesOf(inputData, "tapLeafScript"), newInputData.tapMerkleRoot)
       IN IF ~newLeafsInTree \/ ~oldLeafsInTree
          THEN Throw(ErrLeafNotInTree(action))
          ELSE Return(undefined)
  ELSE IF Has(inputData, "tapMerkleRoot")
  THEN LET newLeafsInTree ==
             EveryLeafInTree(EntriesOf(newInputData, "tapLeafScript"), inputData.tapMerkleRoot)
       IN IF ~newLeafsInTree
          THEN Throw(ErrLeafNotInTree(action))
          ELSE Return(undefined)
  ELSE Return(undefined)

checkTaprootInputFields(inputData, newInputData, same, action) ==
  LET mixed == checkMixedTaprootAndNonTaprootInputFields(inputData, newInputData, same, action)
  IN IF mixed.threw THEN mixed
     ELSE checkIfTapLeafInTree(inputData, newInputData, action)

(***************************************************************************)
(* The values the inputs are made of                                       *)
(***************************************************************************)
ScriptA == <<"P1", "OP_CHECKSIGVERIFY", "P2", "OP_CHECKSIG">>

ScriptB == <<"P2", "OP_CHECKSIG">>

HashA == tapleafHash([output |-> ScriptA, version |-> LEAF_VERSION_TAPSCRIPT])

HashB == tapleafHash([output |-> ScriptB, version |-> LEAF_VERSION_TAPSCRIPT])

RootAB == tapBranchHash(HashA, HashB)

\* a TapLeafScript entry; its control block has the Merkle path  path
LeafScript(script, path) ==
  [leafVersion |-> LEAF_VERSION_TAPSCRIPT, script |-> script,
   controlBlock |-> [path |-> path]]

SeqsUpTo(S, n) == UNION { [1..k -> S] : k \in 0..n }

\* Every object that sets some of  fields , the field f to a value of V[f]
RECURSIVE ObjectsOver(_, _)
ObjectsOver(V, fields) ==
  IF fields = {} THEN {EmptyObject}
  ELSE LET f == CHOOSE g \in fields : TRUE
           rest == ObjectsOver(V, fields \ {f})
       IN rest \cup { o @@ (f :> v) : o \in rest, v \in V[f] }

(***************************************************************************)
(* A PSBT input in its container (psbt.ts over bip174, the caller of       *)
(* bip371.ts): addInput checks the new input against itself, updateInput   *)
(* checks the update against the current input and, when the check passes, *)
(* merges it field by field: a scalar field is set, the entries of an      *)
(* array field are appended.                                               *)
(***************************************************************************)
ArrayFields == {"tapLeafScript", "tapScriptSig", "tapBip32Derivation", "bip32Derivation"}

MergeField(o, n, f) ==
  IF ~Has(n, f) THEN o[f]
  ELSE IF f \in ArrayFields /\ Has(o, f) THEN o[f] \o n[f]
  ELSE n[f]

MergeInto(o, n) == [f \in DOMAIN o \cup DOMAIN n |-> MergeField(o, n, f)]

FitsBounds(o) == \A f \in DOMAIN o \cap ArrayFields : Len(o[f]) <= MaxEntries

InputFieldValues ==
  [tapInternalKey     |-> {"K"},
   tapMerkleRoot      |-> {RootAB},
   tapLeafScript      |-> {<<>>, <<LeafScript(ScriptA, <<HashB>>)>>},
   tapBip32Derivation |-> {<<>>, <<"tapDerivation">>},
   witnessUtxo        |-> {[script |-> [type |-> "p2tr"], value |-> 1],
                           [script |-> [type |-> "p2wpkh"], value |-> 1]},
   redeemScript       |-> {"redeemScript"},
   witnessScript      |-> {"witnessScript"},
   bip32Derivation    |-> {<<>>, <<"derivation">>}]

InputUpdates ==
  { u \in ObjectsOver(InputFieldValues, DOMAIN InputFieldValues) :
      Cardinality(DOMAIN u) <= MaxUpdateFields }

InputInit == CodecIdle /\ PsbtIdle /\ LoopIdle /\ pc = "no-input"

\* psbt.addInput(i)
AddInput ==
  /\ pc = "no-input"
  /\ \E i \in InputUpdates :
       LET r == checkTaprootInputFields(i, i, TRUE, "addInput")
       IN /\ checkRes' = r
          /\ input' = IF r.threw THEN input ELSE i
          /\ pc' = IF r.threw THEN pc ELSE "input"
  /\ UNCHANGED <<codecVars, loopVars, output, args, leafRes, finalRes, inputAfter>>

\* psbt.updateInput(0, u)
UpdateInput ==
  /\ pc = "input"
  /\ \E u \in InputUpdates :
       LET r == checkTaprootInputFields(input, u, FALSE, "updateInput")
       IN /\ FitsBounds(MergeInto(input, u))
          /\ checkRes' = r
          /\ input' = IF r.threw THEN input ELSE MergeInto(input, u)
  /\ UNCHANGED <<pc, codecVars, loopVars, output, args, leafRes, finalRes, inputAfter>>

InputNext == AddInput \/ UpdateInput

InputSpec == InputInit /\ [][InputNext]_vars

(***************************************************************************)
(* C1, as claimed: an input created by checking it against itself and then *)
(* changed only by admitted updates merged field by field is in no         *)
(* reachable state both Taproot-shaped and legacy-shaped.                  *)
(***************************************************************************)
C1_MutualExclusion ==
  pc = "input" => ~(isTaprootInput(input) /\ hasNonTaprootFields(input))

(***************************************************************************)
(* checkTaprootInputFields on its own: any old input, any new one          *)
(***************************************************************************)
CheckFieldValues ==
  [tapMerkleRoot |-> {RootAB, HashA},
   tapLeafScript |-> SeqsUpTo({LeafScript(ScriptA, <<HashB>>),
                               LeafScript(ScriptA, <<>>),
                               LeafScript(ScriptB, <<>>)}, MaxEntries),
   redeemScript  |-> {"redeemScript"}]

CheckInputs == ObjectsOver(CheckFieldValues, DOMAIN CheckFieldValues)

CheckInit ==
  /\ CodecIdle /\ LoopIdle
  /\ pc = "check"
  /\ input \in CheckInputs
  /\ output = None /\ args = None /\ checkRes = None
  /\ leafRes = None /\ finalRes = None /\ inputAfter = None

\* checkTaprootInputFields(input, new, action)
CheckInputFields ==
  /\ pc = "check"
  /\ \E new \in CheckInputs, same \in BOOLEAN :
       /\ same => new = input
       /\ args' = [new |-> new, same |-> same]
       /\ checkRes' = checkTaprootInputFields(input, new, same, "updateInput")
  /\ pc' = "checked"
  /\ UNCHANGED <<codecVars, loopVars, input, output, leafRes, finalRes, inputAfter>>

CheckNext == CheckInputFields

CheckSpec == CheckInit /\ [][CheckNext]_vars

MixedCheckPasses ==
  ~checkMixedTaprootAndNonTaprootInputFields(input, args.new, args.same, "updateInput").threw

\* some entry of o.tapLeafScript is not in the tree of root
SomeLeafOutside(o, root) ==
  \E k \in 1..Len(EntriesOf(o, "tapLeafScript")) : ~isTapLeafInTree(o.tapLeafScript[k], root)

EffectiveRoot ==
  IF Has(args.new, "tapMerkleRoot") THEN args.new.tapMerkleRoot
  ELSE IF Has(input, "tapMerkleRoot") THEN input.tapMerkleRoot
  ELSE undefined

(***************************************************************************)
(* C6, as claimed: when the mixed-field check passes, the call fails with  *)
(* the tapleaf-not-in-taptree error unless every tapLeafScript entry of    *)
(* old and of new is in the tree of the effective root (new.tapMerkleRoot  *)
(* when present, otherwise old.tapMerkleRoot), and does not fail otherwise *)
(* or when neither root is present.                                        *)
(***************************************************************************)
C6_OldAndNewLeavesChecked ==
  (pc = "checked" /\ MixedCheckPasses) =>
    checkRes = IF SomeLeafOutside(input, EffectiveRoot) \/ SomeLeafOutside(args.new, EffectiveRoot)
               THEN Throw(ErrLeafNotInTree("updateInput"))
               ELSE Return(undefined)

(***************************************************************************)
(* C6, amended: when the mixed-field check passes, the call fails with the *)
(* tapleaf-not-in-taptree error unless every tapLeafScript entry of new,   *)
(* and when new.tapMerkleRoot is present also every entry of old, is in    *)
(* the tree of the effective root; otherwise, and when neither root is     *)
(* present, it does not fail.  The entries of old are not checked against  *)
(* old.tapMerkleRoot.                                                      *)
(***************************************************************************)
C6_NewLeavesAndOldAgainstNewRoot ==
  (pc = "checked" /\ MixedCheckPasses) =>
    checkRes = IF \/ SomeLeafOutside(args.new, EffectiveRoot)
                  \/ (Has(args.new, "tapMerkleRoot") /\ SomeLeafOutside(input, EffectiveRoot))
               THEN Throw(ErrLeafNotInTree("updateInput"))
               ELSE Return(undefined)

\* C6's cases: an old leaf outside the new root made the call fail, and (in
\* another call) an old leaf outside the old root did not
C6_Witness ==
  /\ pc = "checked" /\ MixedCheckPasses
  /\ Has(args.new, "tapMerkleRoot")
  /\ ~SomeLeafOutside(args.new, EffectiveRoot)
  /\ SomeLeafOutside(input, EffectiveRoot)
  /\ checkRes = Throw(ErrLeafNotInTree("updateInput"))

(***************************************************************************)
(* Finalization.  Of the imports from psbt/psbtutils.ts,                   *)
(* pubkeyPositionInScript is the index (from 0) of the first chunk of the  *)
(* script that is the public key, or -1; witnessStackToScriptWitness       *)
(* writes the number of items of the stack and then the items.             *)
(***************************************************************************)
pubkeyPositionInScript(pubkey, script) ==
  IF \E k \in 1..Len(script) : script[k] = pubkey
  THEN (CHOOSE k \in 1..Len(script) :
          script[k] = pubkey /\ \A j \in 1..(k - 1) : script[j] # pubkey) - 1
  ELSE -1

witnessStackToScriptWitness(witness) == [count |-> Len(witness), items |-> witness]

\* Array.prototype.sort with the comparator (a, b) => Key(a) - Key(b) : stable
StableSortBy(s, Key(_)) ==
  LET n == Len(s)
      rank(i) == 1 + Cardinality({ j \in 1..n : \/ Key(s[j]) < Key(s[i])
                                                \/ (Key(s[j]) = Key(s[i]) /\ j < i) })
  IN [r \in 1..n |-> s[CHOOSE i \in 1..n : rank(i) = r]]

\* s.map(e => F(e))
Map(s, F(_)) == [k \in 1..Len(s) |-> F(s[k])]

ErrNoSignature(inputIndex) ==
  <<"Can not finalize taproot input #", inputIndex, ". No tapleaf script signature provided.">>

ErrNoLeaf(inputIndex) ==
  <<"Can not finalize taproot input #", inputIndex, ". Signature for tapleaf script not found.">>

canFinalizeLeafAnyHash(leaf, tapScriptSig, hash) ==
  LET leafHash == tapleafHash([output |-> leaf.script, version |-> leaf.leafVersion])
  IN \E k \in 1..Len(tapScriptSig) : tapScriptSig[k].leafHash = leafHash

canFinalizeLeaf(leaf, tapScriptSig, hash) ==
  LET leafHash == tapleafHash([output |-> leaf.script, version |-> leaf.leafVersion])
      whiteListedHash == hash = undefined \/ leafHash = hash
  IN /\ whiteListedHash
     /\ \E k \in 1..Len(tapScriptSig) : tapScriptSig[k].leafHash = leafHash

\* a.controlBlock.length - b.controlBlock.length orders by this key
ControlBlockLengthOf(leaf) == ControlBlockLength(leaf.controlBlock)

\* What the call does: its outcome, and the input object as the call leaves
\* it; sort() sorts the array input.tapLeafScript itself.
findTapLeafToFinalize(i, inputIndex, leafHashToFinalize) ==
  IF ~HasEntries(i, "tapScriptSig")
  THEN [outcome |-> Throw(ErrNoSignature(inputIndex)), input |-> i]
  ELSE LET sorted == StableSortBy(EntriesOf(i, "tapLeafScript"), ControlBlockLengthOf)
           after == IF Has(i, "tapLeafScript")
                    THEN [i EXCEPT !["tapLeafScript"] = sorted]
                    ELSE i
           found == { k \in 1..Len(sorted) :
                        canFinalizeLeaf(sorted[k], i.tapScriptSig, leafHashToFinalize) }
       IN IF found = {}
          THEN [outcome |-> Throw(ErrNoLeaf(inputIndex)), input |-> after]
          ELSE [outcome |-> Return(sorted[CHOOSE k \in found : \A j \in found : k <= j]),
                input |-> after]

\* Object.assign({positionInScript: ...}, tss) : a new object
addPubkeyPositionInScript(script, tss) ==
  MergeInto([positionInScript |-> pubkeyPositionInScript(tss.pubkey, script)], tss)

\* t2.positionInScript - t1.positionInScript orders by this key
NegatedPosition(t) == 0 - t.positionInScript

SignatureOf(t) == t.signature

sortSignaturesUnsorted(i, tapLeaf) ==
  LET leafHash == tapleafHash([output |-> tapLeaf.script, version |-> tapLeaf.leafVersion])
      matches(tss) == tss.leafHash = leafHash
      withPosition(tss) == addPubkeyPositionInScript(tapLeaf.script, tss)
  IN Map(Map(SelectSeq(EntriesOf(i, "tapScriptSig"), matches), withPosition), SignatureOf)

sortSignatures(i, tapLeaf) ==
  LET leafHash == tapleafHash([output |-> tapLeaf.script, version |-> tapLeaf.leafVersion])
      matches(tss) == tss.leafHash = leafHash
      withPosition(tss) == addPubkeyPositionInScript(tapLeaf.script, tss)
  IN Map(StableSortBy(Map(SelectSeq(EntriesOf(i, "tapScriptSig"), matches), withPosition),
                      NegatedPosition),
         SignatureOf)

\* What the call does: the leaf found, the outcome, the input as it is left
tapScriptFinalizer(inputIndex, i, tapLeafHashToFinalize) ==
  LET found == findTapLeafToFinalize(i, inputIndex, tapLeafHashToFinalize)
  IN IF found.outcome.threw
     THEN [tapLeaf |-> found.outcome, outcome |-> found.outcome, input |-> found.input]
     ELSE LET tapLeaf == found.outcome.value
              sigs == sortSignatures(found.input, tapLeaf)
              witness == sigs \o <<tapLeaf.script>> \o <<tapLeaf.controlBlock>>
          IN [tapLeaf |-> found.outcome,
              outcome |-> Return([finalScriptWitness |-> witnessStackToScriptWitness(witness)]),
              input |-> found.input]

FinalizeLeafScripts ==
  { LeafScript(ScriptA, <<>>), LeafScript(ScriptA, <<HashB>>),
    LeafScript(ScriptB, <<>>), LeafScript(ScriptB, <<HashA>>) }

TapScriptSigs ==
  { [pubkey |-> "P1", leafHash |-> HashA, signature |-> "sig-P1-A"],
    [pubkey |-> "P2", leafHash |-> HashA, signature |-> "sig-P2-A"],
    [pubkey |-> "P1", leafHash |-> HashB, signature |-> "sig-P1-B"],
    [pubkey |-> "P2", leafHash |-> HashB, signature |-> "sig-P2-B"] }

FinalizeFieldValues ==
  [tapLeafScript |-> SeqsUpTo(FinalizeLeafScripts, MaxEntries),
   tapScriptSig  |-> SeqsUpTo(TapScriptSigs, MaxSigs)]

FinalizeInputs == ObjectsOver(FinalizeFieldValues, DOMAIN FinalizeFieldValues)

FinalizeTargets == {undefined, HashA, HashB}

FinalizeInit ==
  /\ CodecIdle /\ LoopIdle
  /\ pc = "finalize"
  /\ input \in FinalizeInputs
  /\ output = None /\ args = None /\ checkRes = None
  /\ leafRes = None /\ finalRes = None /\ inputAfter = None

\* tapScriptFinalizer(0, input, target)
TapScriptFinalizer ==
  /\ pc = "finalize"
  /\ \E target \in FinalizeTargets :
       LET r == tapScriptFinalizer(0, input, target)
       IN /\ args' = [inputIndex |-> 0, tapLeafHashToFinalize |-> target]
          /\ leafRes' = r.tapLeaf
          /\ finalRes' = r.outcome
          /\ inputAfter' = r.input
  /\ pc' = "finalized"
  /\ UNCHANGED <<codecVars, loopVars, input, output, checkRes>>

FinalizeNext == TapScriptFinalizer

FinalizeSpec == FinalizeInit /\ [][FinalizeNext]_vars

(***************************************************************************)
(* Notions the claims about finalization are stated with                   *)
(***************************************************************************)
LeafHashOf(e) == tapleafHash([output |-> e.script, version |-> e.leafVersion])

SignedWith(h) ==
  \E k \in 1..Len(EntriesOf(input, "tapScriptSig")) : input.tapScriptSig[k].leafHash = h

Qualifying(e) ==
  /\ args.tapLeafHashToFinalize = undefined \/ LeafHashOf(e) = args.tapLeafHashToFinalize
  /\ SignedWith(LeafHashOf(e))

QualifyingEntries ==
  { k \in 1..Len(EntriesOf(input, "tapLeafScript")) : Qualifying(input.tapLeafScript[k]) }

(***************************************************************************)
(* C7: findTapLeafToFinalize fails with the no-signature error exactly     *)
(* when tapScriptSig is absent or empty; otherwise with the no-matching-   *)
(* leaf error exactly when no tapLeafScript entry qualifies (its leaf hash *)
(* is the target, if one is given, and some tapScriptSig entry carries its *)
(* leaf hash); otherwise it returns a qualifying entry whose control block *)
(* is no longer than that of any other qualifying entry.                   *)
(***************************************************************************)
C7_LeafSelection ==
  pc = "finalized" =>
    IF ~HasEntries(input, "tapScriptSig") THEN leafRes = Throw(ErrNoSignature(0))
    ELSE IF QualifyingEntries = {} THEN leafRes = Throw(ErrNoLeaf(0))
    ELSE /\ Returned(leafRes)
         /\ \E k \in QualifyingEntries : leafRes.value = input.tapLeafScript[k]
         /\ \A k \in QualifyingEntries :
              ControlBlockLength(leafRes.value.controlBlock)
                <= ControlBlockLength(input.tapLeafScript[k].controlBlock)

\* C7's case: of a 65 byte and a 33 byte entry, both signed, listed in this
\* order and no target given, the 33 byte one was returned
C7_Witness ==
  /\ pc = "finalized"
  /\ args.tapLeafHashToFinalize = undefined
  /\ Len(EntriesOf(input, "tapLeafScript")) = 2
  /\ QualifyingEntries = {1, 2}
  /\ ControlBlockLength(input.tapLeafScript[1].controlBlock) = 65
  /\ ControlBlockLength(input.tapLeafScript[2].controlBlock) = 33
  /\ leafRes = Return(input.tapLeafScript[2])

\* the tapScriptSig entries that carry the leaf hash of the selected leaf
MatchingSigs ==
  LET matches(tss) == tss.leafHash = LeafHashOf(leafRes.value)
  IN SelectSeq(EntriesOf(input, "tapScriptSig"), matches)

PositionOf(tss) == pubkeyPositionInScript(tss.pubkey, leafRes.value.script)

(***************************************************************************)
(* C8: when tapScriptFinalizer succeeds with selected leaf L, the stack it *)
(* serializes is the signatures of exactly the tapScriptSig entries whose  *)
(* leafHash is L's leaf hash, ordered so that the position of their public *)
(* keys in L.script does not increase, then L.script, then L.controlBlock. *)
(***************************************************************************)
C8_WitnessStack ==
  (pc = "finalized" /\ Returned(finalRes)) =>
    LET L == leafRes.value
        serialized == finalRes.value.finalScriptWitness
        stack == serialized.items
        k == Len(MatchingSigs)
    IN /\ serialized.count = Len(stack)
       /\ Len(stack) = k + 2
       /\ stack[k + 1] = L.script
       /\ stack[k + 2] = L.controlBlock
       /\ \E p \in Permutations(1..k) :
            /\ \A i \in 1..k : stack[i] = MatchingSigs[p[i]].signature
            /\ \A i, j \in 1..k :
                 i < j => PositionOf(MatchingSigs[p[i]]) >= PositionOf(MatchingSigs[p[j]])

\* C8's case: the signatures for the keys at positions 0 and 2 of the script,
\* listed in this order next to a signature for another leaf, came out as the
\* one for position 2 and then the one for position 0
C8_Witness ==
  /\ pc = "finalized" /\ Returned(finalRes)
  /\ Len(input.tapScriptSig) = 3
  /\ Len(MatchingSigs) = 2
  /\ PositionOf(MatchingSigs[1]) = 0
  /\ PositionOf(MatchingSigs[2]) = 2
  /\ finalRes.value.finalScriptWitness.items =
       <<MatchingSigs[2].signature, MatchingSigs[1].signature,
         leafRes.value.script, leafRes.value.controlBlock>>

(***************************************************************************)
(* C9, as claimed: after any call of tapScriptFinalizer, whether it        *)
(* returns or fails, the input is unchanged: tapLeafScript and             *)
(* tapScriptSig hold the same entries in the same order, and no entry has  *)
(* gained or lost a field.                                                 *)
(***************************************************************************)
C9_InputUnchanged == pc = "finalized" => inputAfter = input

(***************************************************************************)
(* The imports from payments/: p2tr rejects a scriptTree that is not a     *)
(* Taptree, and otherwise returns the output script of the internal key    *)
(* tweaked by the root hash of the tree, or by nothing when there is no    *)
(* tree.                                                                   *)
(***************************************************************************)
RECURSIVE toHashTree(_)
toHashTree(scriptTree) ==
  IF isTapleaf(scriptTree) THEN tapleafHash(scriptTree)
  ELSE tapBranchHash(toHashTree(scriptTree.left), toHashTree(scriptTree.right))

ErrNotATaptree == "TypeError: property scriptTree is not a Taptree"

p2trOutput(internalPubkey, scriptTree) ==
  IF scriptTree = undefined
  THEN Return([type |-> "p2tr", pubkey |-> [tweaked |-> internalPubkey, by |-> undefined]])
  ELSE IF ~isTaptree(scriptTree) THEN Throw(ErrNotATaptree)
  ELSE Return([type |-> "p2tr",
               pubkey |-> [tweaked |-> internalPubkey, by |-> toHashTree(scriptTree)]])

(***************************************************************************)
(* The checks of an output                                                 *)
(***************************************************************************)
ErrScriptMismatch == "Error adding output. Script or address mismatch."

\* o.f, undefined when the field is not set
FieldOf(o, f) == IF Has(o, f) THEN o[f] ELSE undefined

\* a || b
Either(a, b) == IF a # undefined THEN a ELSE b

checkMixedTaprootAndNonTaprootOutputFields(inputData, newInputData, same, action) ==
  LET isBadTaprootUpdate ==
        isTaprootOutput(inputData) /\ hasNonTaprootFields(newInputData)
      isBadNonTaprootUpdate ==
        hasNonTaprootFields(inputData) /\ isTaprootOutput(newInputData)
      hasMixedFields ==
        same /\ isTaprootOutput(newInputData) /\ hasNonTaprootFields(newInputData)
  IN IF isBadTaprootUpdate \/ isBadNonTaprootUpdate \/ hasMixedFields
     THEN Throw(ErrMixedFields(action))
     ELSE Return(undefined)

\* tapTree && tapTreeFromList(tapTree.leaves), then p2tr(...).output
getTaprootScripPubkey(tapInternalKey, tapTree) ==
  LET scriptTree == IF tapTree = undefined THEN Return(undefined)
                    ELSE tapTreeFromList(tapTree.leaves)
  IN IF scriptTree.threw THEN scriptTree
     ELSE p2trOutput(tapInternalKey, scriptTree.value)

checkTaprootScriptPubkeyAlways(outputData, newOutputData) ==
  LET tapInternalKey ==
        Either(FieldOf(newOutputData, "tapInternalKey"), FieldOf(outputData, "tapInternalKey"))
      tapTree == Either(FieldOf(newOutputData, "tapTree"), FieldOf(outputData, "tapTree"))
  IN IF tapInternalKey = undefined THEN Return(undefined)
     ELSE LET script == getTaprootScripPubkey(tapInternalKey, tapTree)
          IN IF script.threw THEN script
             ELSE IF Has(outputData, "script") /\ script.value # outputData.script
             THEN Throw(ErrScriptMismatch)
             ELSE Return(undefined)

checkTaprootScriptPubkey(outputData, newOutputData) ==
  IF ~Has(newOutputData, "tapTree") /\ ~Has(newOutputData, "tapInternalKey")
  THEN Return(undefined)
  ELSE
  LET tapInternalKey ==
        Either(FieldOf(newOutputData, "tapInternalKey"), FieldOf(outputData, "tapInternalKey"))
      tapTree == Either(FieldOf(newOutputData, "tapTree"), FieldOf(outputData, "tapTree"))
  IN IF tapInternalKey = undefined THEN Return(undefined)
     ELSE LET script == getTaprootScripPubkey(tapInternalKey, tapTree)
          IN IF script.threw THEN script
             ELSE IF Has(outputData, "script") /\ script.value # outputData.script
             THEN Throw(ErrScriptMismatch)
             ELSE Return(undefined)

checkTaprootOutputFields(outputData, newOutputData, same, action) ==
  LET mixed == checkMixedTaprootAndNonTaprootOutputFields(outputData, newOutputData, same, action)
  IN IF mixed.threw THEN mixed
     ELSE checkTaprootScriptPubkey(outputData, newOutputData)

\* a 32 byte x-only public key
InternalKey == [xOnlyPubkey |-> "K"]

TreeLeaf(depth, script) ==
  [depth |-> depth, leafVersion |-> LEAF_VERSION_TAPSCRIPT, script |-> script]

\* tapTree fields: no leaf, one leaf, a tree of two leaves, a list that leaves
\* a slot empty, a list with no room for its second leaf
OutputTapTrees ==
  { [leaves |-> <<>>],
    [leaves |-> <<TreeLeaf(0, ScriptA)>>],
    [leaves |-> <<TreeLeaf(1, ScriptA), TreeLeaf(1, ScriptB)>>],
    [leaves |-> <<TreeLeaf(1, ScriptA)>>],
    [leaves |-> <<TreeLeaf(0, ScriptA), TreeLeaf(0, ScriptB)>>] }

OutputScripts ==
  { p2trOutput(InternalKey, undefined).value,
    p2trOutput(InternalKey, [output |-> ScriptA, version |-> LEAF_VERSION_TAPSCRIPT]).value,
    p2trOutput(InternalKey, Pair([output |-> ScriptA, version |-> LEAF_VERSION_TAPSCRIPT],
                         [output |-> ScriptB, version |-> LEAF_VERSION_TAPSCRIPT])).value,
    [type |-> "p2wpkh"] }

OutputFieldValues ==
  [tapInternalKey |-> {InternalKey},
   tapTree        |-> OutputTapTrees,
   script         |-> OutputScripts,
   redeemScript   |-> {"redeemScript"}]

Outputs == ObjectsOver(OutputFieldValues, DOMAIN OutputFieldValues)

OutputInit ==
  /\ CodecIdle /\ LoopIdle
  /\ pc = "check-output"
  /\ output \in Outputs
  /\ input = None /\ args = None /\ checkRes = None
  /\ leafRes = None /\ finalRes = None /\ inputAfter = None

\* checkTaprootOutputFields(output, new, action)
CheckOutputFields ==
  /\ pc = "check-output"
  /\ \E new \in Outputs, same \in BOOLEAN :
       /\ same => new = output
       /\ args' = [new |-> new, same |-> same]
       /\ checkRes' = checkTaprootOutputFields(output, new, same, "updateOutput")
  /\ pc' = "output-checked"
  /\ UNCHANGED <<codecVars, loopVars, input, output, leafRes, finalRes, inputAfter>>

OutputNext == CheckOutputFields

OutputSpec == OutputInit /\ [][OutputNext]_vars

(***************************************************************************)
(* Notions the claims about the output check are stated with               *)
(***************************************************************************)
MixedOutputCheckPasses ==
  ~checkMixedTaprootAndNonTaprootOutputFields(output, args.new, args.same, "updateOutput").threw

MergedKey == Either(FieldOf(args.new, "tapInternalKey"), FieldOf(output, "tapInternalKey"))

MergedTree == Either(FieldOf(args.new, "tapTree"), FieldOf(output, "tapTree"))

\* what rebuilding the merged tree from its leaf list gives
RebuiltTree ==
  IF MergedTree = undefined THEN Return(undefined) ELSE tapTreeFromList(MergedTree.leaves)

\* the merged tree is absent, or its leaf list is empty or gives a tree
\* without an empty slot
TreeRebuilds ==
  /\ Returned(RebuiltTree)
  /\ RebuiltTree.value = undefined \/ NoEmptySlot(RebuiltTree.value)

\* the Taproot scriptPubKey of the merged key and tree
ExpectedScript ==
  [type |-> "p2tr",
   pubkey |-> [tweaked |-> MergedKey,
               by |-> IF RebuiltTree.value = undefined THEN undefined
                      ELSE toHashTree(RebuiltTree.value)]]

NewCarriesKeyOrTree == Has(args.new, "tapInternalKey") \/ Has(args.new, "tapTree")

(***************************************************************************)
(* C10, as claimed: when the mixed-field check passes and the merged key   *)
(* (new.tapInternalKey, else old.tapInternalKey) is present, the call      *)
(* fails with the script-mismatch error if the output carries a script     *)
(* that is not the Taproot scriptPubKey of the merged key and tree, and    *)
(* does not fail when the script is that one or no script is set.  (Taken  *)
(* over the merged trees that can be rebuilt.)                             *)
(***************************************************************************)
C10_MismatchWheneverKeyMerged ==
  (pc = "output-checked" /\ MixedOutputCheckPasses /\ MergedKey # undefined /\ TreeRebuilds) =>
    checkRes = IF Has(output, "script") /\ output.script # ExpectedScript
               THEN Throw(ErrScriptMismatch)
               ELSE Return(undefined)

(***************************************************************************)
(* C10, amended: when the mixed-field check passes, the call does not fail *)
(* if new carries neither tapInternalKey nor tapTree or if no merged key   *)
(* is present.  Otherwise, if the merged tree's leaf list cannot be        *)
(* rebuilt into a tree without an empty slot, the call fails with the      *)
(* error of that rebuilding; and if it can (or the tree is absent or has   *)
(* no leaf), the call fails with the script-mismatch error exactly when    *)
(* old carries a script that is not the Taproot scriptPubKey of the merged *)
(* key and tree, and does not fail when the script is that one or no       *)
(* script is set.                                                          *)
(***************************************************************************)
C10_MismatchWhenNewCarriesKeyOrTree ==
  (pc = "output-checked" /\ MixedOutputCheckPasses) =>
    IF ~NewCarriesKeyOrTree \/ MergedKey = undefined THEN checkRes = Return(undefined)
    ELSE IF Threw(RebuiltTree) THEN checkRes = RebuiltTree
    ELSE IF ~TreeRebuilds THEN checkRes = Throw(ErrNotATaptree)
    ELSE checkRes = IF Has(output, "script") /\ output.script # ExpectedScript
                    THEN Throw(ErrScriptMismatch)
                    ELSE Return(undefined)

\* C10's case: new sets a tree of two leaves on an output that carries the
\* key and the script of the key alone, and the call fails with the mismatch
C10_Witness ==
  /\ pc = "output-checked" /\ MixedOutputCheckPasses
  /\ ~Has(args.new, "tapInternalKey") /\ Has(output, "tapInternalKey")
  /\ Has(args.new, "tapTree") /\ Len(args.new.tapTree.leaves) = 2
  /\ Has(output, "script") /\ output.script = p2trOutput(InternalKey, undefined).value
  /\ checkRes = Throw(ErrScriptMismatch)

(***************************************************************************)
(* tapTreeFromList step by step: the loop of instertLeavesInTree inserts   *)
(* one leaf of the list per iteration into the partial tree  tree .        *)
(***************************************************************************)
LoopInit ==
  /\ PsbtIdle
  /\ pc = "from-list"
  /\ leaves \in InputLists
  /\ tree = undefined
  /\ listRes = None /\ treeRes = None
  /\ inserted = 0 /\ treeBefore = None

\* tapTreeFromList(leaves): the single leaf of depth 0 is returned at once,
\* any other list goes to instertLeavesInTree
CallTapTreeFromList ==
  /\ pc = "from-list"
  /\ IF Len(leaves) = 1 /\ leaves[1].depth = 0
     THEN /\ treeRes' = Return(NewTapleaf(leaves[1]))
          /\ pc' = "returned"
     ELSE /\ treeRes' = treeRes
          /\ pc' = "loop"
  /\ UNCHANGED <<tree, leaves, listRes, psbtVars, loopVars>>

\* one iteration: tree = instertLeafInTree(leaf, tree); if (!tree) throw ...
InsertNextLeaf ==
  /\ pc = "loop"
  /\ inserted < Len(leaves)
  /\ LET r == instertLeafInTree(leaves[inserted + 1], tree, 0)
     IN CASE r.threw ->
               /\ treeRes' = r
               /\ pc' = "threw"
               /\ UNCHANGED <<tree, inserted, treeBefore>>
          [] r.value = undefined ->
               /\ treeRes' = Throw(ErrNoRoom)
               /\ pc' = "threw"
               /\ UNCHANGED <<tree, inserted, treeBefore>>
          [] OTHER ->
               /\ treeBefore' = tree
               /\ tree' = r.value
               /\ inserted' = inserted + 1
               /\ UNCHANGED <<pc, treeRes>>
  /\ UNCHANGED <<leaves, listRes, psbtVars>>

\* the loop is over: return tree as Taptree
ReturnTree ==
  /\ pc = "loop"
  /\ inserted = Len(leaves)
  /\ treeRes' = Return(tree)
  /\ pc' = "returned"
  /\ UNCHANGED <<tree, leaves, listRes, psbtVars, loopVars>>

LoopNext == CallTapTreeFromList \/ InsertNextLeaf \/ ReturnTree

LoopSpec == LoopInit /\ [][LoopNext]_vars

(***************************************************************************)
(* Notions the claim about the insertion loop is stated with.  A position  *)
(* is the path from the root: 0 for a left child, 1 for a right child.     *)
(***************************************************************************)
\* the leaves of the partial tree t, each with its position
RECURSIVE LeafPositions(_, _)
LeafPositions(t, path) ==
  IF t = undefined THEN {}
  ELSE IF isTapleaf(t) THEN {[path |-> path, leaf |-> t]}
  ELSE LeafPositions(t.left, Append(path, 0)) \cup LeafPositions(t.right, Append(path, 1))

\* position  path  (from its k-th step on, below the subtree t) is empty and
\* not below a leaf
RECURSIVE IsEmptySlotFrom(_, _, _)
IsEmptySlotFrom(t, path, k) ==
  IF t = undefined THEN TRUE
  ELSE IF k > Len(path) \/ isTapleaf(t) THEN FALSE
  ELSE IsEmptySlotFrom(IF path[k] = 0 THEN t.left ELSE t.right, path, k + 1)

IsEmptySlot(t, path) == IsEmptySlotFrom(t, path, 1)

\* p comes before q, depth first and left before right (p, q of one length)
LeftOf(p, q) ==
  \E k \in 1..Len(p) : p[k] < q[k] /\ \A j \in 1..(k - 1) : p[j] = q[j]

\* the TapLeaf of the list that the leaf at a position stands for
AsListLeaf(pos) ==
  [depth |-> Len(pos.path), leafVersion |-> pos.leaf.version, script |-> pos.leaf.output]

InLoop == pc \in {"loop", "threw", "returned"} /\ treeBefore # None

NewPositions == LeafPositions(tree, <<>>) \ LeafPositions(treeBefore, <<>>)

(***************************************************************************)
(* C11: after each successful insertion of the next leaf of the list, the  *)
(* partial tree holds exactly the leaves inserted so far, each at the      *)
(* nesting depth it declares and with its script and leafVersion; every    *)
(* leaf inserted earlier is where it was; and the new leaf is in the       *)
(* leftmost (depth first, left before right) empty slot of its depth that  *)
(* is not below a leaf.                                                    *)
(***************************************************************************)
C11_InsertionLoopInvariant ==
  InLoop =>
    LET now == LeafPositions(tree, <<>>)
        before == LeafPositions(treeBefore, <<>>)
        leaf == leaves[inserted]
    IN /\ Cardinality(now) = inserted
       /\ \A i \in 1..inserted :
            Cardinality({pos \in now : AsListLeaf(pos) = leaves[i]})
              = Cardinality({j \in 1..inserted : leaves[j] = leaves[i]})
       /\ before \subseteq now
       /\ \E pos \in now :
            /\ now \ before = {pos}
            /\ AsListLeaf(pos) = leaf
            /\ IsEmptySlot(treeBefore, pos.path)
            /\ \A q \in [1..leaf.depth -> {0, 1}] :
                 LeftOf(q, pos.path) => ~IsEmptySlot(treeBefore, q)

\* C11's case: the third leaf went to the right of the first one, the slots
\* to its left being taken, and the two earlier leaves stayed where they were
C11_Witness ==
  /\ InLoop
  /\ inserted = 3
  /\ leaves[1].depth = 2 /\ leaves[2].depth = 1 /\ leaves[3].depth = 2
  /\ tree = Pair(Pair(NewTapleaf(leaves[1]), NewTapleaf(leaves[3])), NewTapleaf(leaves[2]))
  /\ treeBefore = Pair(Pair(NewTapleaf(leaves[1]), undefined), NewTapleaf(leaves[2]))

=============================================================================
